---- MODULE Spec2Model ----
(***************************************************************************)
(* DocuSync: the webhook-driven documentation pipeline of                  *)
(* backend/agents/webhook_server_integrated.py with the agents it calls    *)
(* (commit_watcher_agent.py, readme_updater_agent.py, github_client.py).   *)
(*                                                                         *)
(* Strings are modelled by their characters (file names) or by their       *)
(* tokens (README lines), so that substring, suffix and prefix tests are   *)
(* computed and not assumed.  Time is the wall clock in seconds.           *)
(***************************************************************************)
EXTENDS Integers, Sequences, FiniteSets, Bags, TLC

\* ------------------------------------------------------------------ bounds
Tick     == 180     \* granularity of the wall clock, seconds per clock step
MaxTime  == 180     \* the clock stops advancing here
MaxRuns  == 2       \* background workers started in one behaviour
NumPRs   == 2       \* pull requests of the repository
MaxFiles == 2       \* files in one commit (loop-guard specification)
MaxWrites == 2      \* write-backs in one behaviour (README specification)
MaxPRFiles == 3     \* files of one pull request (classifier specification)
MaxKeys  == 2       \* keys of one LLM response (extraction specification)

\* ------------------------------------------------------- program constants
SuppressSeconds == 180     \* should_ignore_webhook: "within last 3 minutes"
PurgeSeconds    == 600     \* cleanup_old_pr_updates: "older than 10 minutes"

PRs == 1..NumPRs

\* ----------------------------------------------------------------- strings
Chars(f) ==
    CASE f = "README.md" -> <<"R", "E", "A", "D", "M", "E", ".", "m", "d">>
      [] f = "src/app.py" -> <<"s", "r", "c", "/", "a", "p", "p", ".", "p", "y">>
      [] f = "docs/guide.rst" -> <<"d", "o", "c", "s", "/", "g", "u", "i", "d", "e", ".", "r", "s", "t">>
      [] f = "CHANGELOG.md" -> <<"C", "H", "A", "N", "G", "E", "L", "O", "G", ".", "m", "d">>
      [] f = "app.mdx" -> <<"a", "p", "p", ".", "m", "d", "x">>
      [] f = "Readme.TXT" -> <<"R", "e", "a", "d", "m", "e", ".", "T", "X", "T">>
      [] f = "src/api/users.py" -> <<"s", "r", "c", "/", "a", "p", "i", "/", "u", "s", "e", "r", "s", ".", "p", "y">>
      [] f = "main.go" -> <<"m", "a", "i", "n", ".", "g", "o">>
      [] f = "config.yml" -> <<"c", "o", "n", "f", "i", "g", ".", "y", "m", "l">>
      [] f = "setup.cfg" -> <<"s", "e", "t", "u", "p", ".", "c", "f", "g">>
      [] f = "test_app.py" -> <<"t", "e", "s", "t", "_", "a", "p", "p", ".", "p", "y">>
      [] f = "guide.adoc" -> <<"g", "u", "i", "d", "e", ".", "a", "d", "o", "c">>
      [] f = "Makefile" -> <<"M", "a", "k", "e", "f", "i", "l", "e">>

Filenames ==
    {"README.md", "src/app.py", "docs/guide.rst", "CHANGELOG.md", "app.mdx", "Readme.TXT"}

LowerChar(c) ==
    CASE c = "A" -> "a"
      [] c = "C" -> "c"
      [] c = "D" -> "d"
      [] c = "E" -> "e"
      [] c = "G" -> "g"
      [] c = "H" -> "h"
      [] c = "L" -> "l"
      [] c = "M" -> "m"
      [] c = "N" -> "n"
      [] c = "O" -> "o"
      [] c = "R" -> "r"
      [] c = "T" -> "t"
      [] c = "X" -> "x"
      [] OTHER -> c

\* str.lower()
Lower(s) == [i \in 1..Len(s) |-> LowerChar(s[i])]

\* `p in s`
Contains(s, p) ==
    \E i \in 0..(Len(s) - Len(p)) : SubSeq(s, i + 1, i + Len(p)) = p

\* s.endswith(p)
EndsWith(s, p) ==
    /\ Len(s) >= Len(p)
    /\ SubSeq(s, Len(s) - Len(p) + 1, Len(s)) = p

\* ------------------------------------------------------------- loop guard
\* the doc_pattern list of should_ignore_webhook
DocPatterns ==
    { <<"r", "e", "a", "d", "m", "e", ".", "m", "d">>,
      <<"r", "e", "a", "d", "m", "e", ".", "r", "s", "t">>,
      <<"r", "e", "a", "d", "m", "e", ".", "t", "x", "t">>,
      <<"d", "o", "c", "s", "/">>,
      <<"d", "o", "c", "u", "m", "e", "n", "t", "a", "t", "i", "o", "n", "/">>,
      <<".", "m", "d">> }

\* any(doc_pattern in f.lower() for doc_pattern in [...])
IsDocPath(f) ==
    \E p \in DocPatterns : Contains(Lower(Chars(f)), p)

\* non_doc_files = [f for f in changed_files if not any(...)]
NonDocFiles(changed_files) == {f \in changed_files : ~IsDocPath(f)}

\* cleanup_old_pr_updates: drop the entries older than 10 minutes
cleanup_old_pr_updates(recent, t) ==
    [k \in {q \in DOMAIN recent : ~(t - recent[q] > PurgeSeconds)} |-> recent[k]]

\* the "recently processed" test of should_ignore_webhook, on the cleaned map
RecentlyProcessed(recent, pr, t) ==
    /\ pr \in DOMAIN recent
    /\ t - recent[pr] < SuppressSeconds

\* check_commit_files_changed: the file names of the commit on HTTP 200,
\* the empty list on any other status or on an exception
check_commit_files_changed(files, fetchOk) ==
    IF fetchOk THEN files ELSE {}

\* a variant without the `if changed_files:` test
DocOnlyCommit_closed(action, hasSha, files, fetchOk) ==
    /\ action = "synchronize"
    /\ hasSha
    /\ NonDocFiles(check_commit_files_changed(files, fetchOk)) = {}

\* the synchronize branch of should_ignore_webhook
DocOnlyCommit(action, hasSha, files, fetchOk) ==
    /\ action = "synchronize"
    /\ hasSha
    /\ LET changed_files == check_commit_files_changed(files, fetchOk)
       IN  /\ changed_files # {}
           /\ NonDocFiles(changed_files) = {}

\* should_ignore_webhook(payload) for a pull_request payload: the reason for
\* ignoring, or "pass".  pr = 0 stands for a payload without PR number.
should_ignore_webhook(recent, t, action, pr, hasSha, files, fetchOk) ==
    LET cleaned == cleanup_old_pr_updates(recent, t)
    IN  IF pr = 0 THEN "pass"
        ELSE IF RecentlyProcessed(cleaned, pr, t) THEN "recent"
        ELSE IF DocOnlyCommit(action, hasSha, files, fetchOk) THEN "doc_only"
        ELSE "pass"

\* ---------------------------------------------------------------- analysis
\* _analyze_file_changes: documentation suffixes
DocExts ==
    { <<".", "m", "d">>,
      <<".", "r", "s", "t">>,
      <<".", "t", "x", "t">>,
      <<".", "a", "d", "o", "c">> }

\* _analyze_file_changes: code suffixes
CodeExts ==
    { <<".", "p", "y">>,
      <<".", "j", "s">>,
      <<".", "t", "s">>,
      <<".", "j", "a", "v", "a">>,
      <<".", "g", "o">>,
      <<".", "r", "s">>,
      <<".", "c", "p", "p">>,
      <<".", "c">> }

\* _analyze_file_changes: configuration suffixes
ConfigExts ==
    { <<".", "j", "s", "o", "n">>,
      <<".", "y", "a", "m", "l">>,
      <<".", "y", "m", "l">>,
      <<".", "t", "o", "m", "l">>,
      <<".", "i", "n", "i">>,
      <<".", "c", "f", "g">> }

\* _determine_documentation_requirements: suffixes that raise the confidence
ApiCodeExts ==
    { <<".", "p", "y">>,
      <<".", "j", "s">>,
      <<".", "t", "s">>,
      <<".", "j", "a", "v", "a">> }

\* _assess_documentation_impact: configuration suffixes
ImpactConfigExts ==
    { <<".", "j", "s", "o", "n">>,
      <<".", "y", "a", "m", "l">>,
      <<".", "y", "m", "l">>,
      <<".", "t", "o", "m", "l">> }

HasSuffix(f, exts) == \E e \in exts : EndsWith(Chars(f), e)

\* the files GitHub reports for a pull request
PRFiles(pr) ==
    CASE pr = 1 -> {"src/app.py"}
      [] pr = 2 -> {"CHANGELOG.md"}
      [] OTHER  -> {"README.md", "src/app.py"}

\* the lower-cased diff of a pull request, as the set of its tokens
PRDiff(pr) ==
    CASE pr = 1 -> {"def ", "+ return users"}
      [] pr = 2 -> {"+ fixed typo"}
      [] OTHER  -> {"class ", "+ text"}

\* the keyword list of _assess_documentation_impact
ApiKeywords == {"def ", "function ", "class ", "interface ", "endpoint", "route"}

\* _analyze_file_changes: first matching branch of the if/elif chain
documentation_files(files) == {f \in files : HasSuffix(f, DocExts)}
code_files(files) ==
    {f \in files : ~HasSuffix(f, DocExts) /\ HasSuffix(f, CodeExts)}
config_files(files) ==
    {f \in files : /\ ~HasSuffix(f, DocExts)
                   /\ ~HasSuffix(f, CodeExts)
                   /\ HasSuffix(f, ConfigExts)}

\* _assess_documentation_impact(files, diff); diffOk = FALSE is diff = None
assess_documentation_impact(files, diffOk, diff) ==
    LET api     == diffOk /\ (diff \cap ApiKeywords) # {}
        config  == \E f \in files : HasSuffix(f, ImpactConfigExts)
        readme  == \E f \in files :
                      Contains(Lower(Chars(f)), <<"r", "e", "a", "d", "m", "e">>)
    IN  [ requires_doc_update |-> api \/ config,
          impact_level |-> IF config \/ readme THEN "medium"
                           ELSE IF api THEN "high" ELSE "low",
          suggested_actions |->
              (IF api THEN <<"Update API documentation">> ELSE << >>) \o
              (IF config THEN <<"Update configuration documentation">> ELSE << >>) ]

\* a variant with `>= 0.6` as the threshold of requires_update
determine_requirements_ge(files, impact) ==
    LET code   == \E f \in code_files(files) : HasSuffix(f, ApiCodeExts)
        config == config_files(files) # {}
        docs   == documentation_files(files) # {}
        score  == 5 + (IF code THEN 3 ELSE 0) + (IF config THEN 2 ELSE 0)
                    + (IF docs THEN 1 ELSE 0)
    IN  [ requires_update |-> impact.requires_doc_update \/ score >= 6,
          confidence_score |-> IF score > 10 THEN 10 ELSE score,
          impact_level |-> impact.impact_level,
          suggested_actions |-> impact.suggested_actions ]

\* a variant with `> 0.4` as the threshold of requires_update
determine_requirements_gt4(files, impact) ==
    LET code   == \E f \in code_files(files) : HasSuffix(f, ApiCodeExts)
        config == config_files(files) # {}
        docs   == documentation_files(files) # {}
        score  == 5 + (IF code THEN 3 ELSE 0) + (IF config THEN 2 ELSE 0)
                    + (IF docs THEN 1 ELSE 0)
    IN  [ requires_update |-> impact.requires_doc_update \/ score > 4,
          confidence_score |-> IF score > 10 THEN 10 ELSE score,
          impact_level |-> impact.impact_level,
          suggested_actions |-> impact.suggested_actions ]

\* _determine_documentation_requirements; the confidence is kept in tenths
determine_documentation_requirements(files, impact) ==
    LET code   == \E f \in code_files(files) : HasSuffix(f, ApiCodeExts)
        config == config_files(files) # {}
        docs   == documentation_files(files) # {}
        score  == 5 + (IF code THEN 3 ELSE 0) + (IF config THEN 2 ELSE 0)
                    + (IF docs THEN 1 ELSE 0)
        actions ==
            (IF code THEN <<"Review code changes for API documentation updates">>
                     ELSE << >>) \o
            (IF config THEN <<"Update configuration documentation">> ELSE << >>) \o
            (IF docs THEN <<"Review documentation changes for consistency">>
                     ELSE << >>)
    IN  [ requires_update |-> impact.requires_doc_update \/ score > 6,
          confidence_score |-> IF score > 10 THEN 10 ELSE score,
          impact_level |-> impact.impact_level,
          suggested_actions |-> IF actions # << >> THEN actions
                                ELSE impact.suggested_actions ]

\* a variant with `>= 0.8` as the threshold of "critical"
calculate_priority_ge(req) ==
    IF ~req.requires_update THEN "none"
    ELSE IF req.impact_level = "high" /\ req.confidence_score >= 8 THEN "critical"
    ELSE IF req.impact_level = "high" \/ req.confidence_score > 7 THEN "high"
    ELSE IF req.impact_level = "medium" \/ req.confidence_score > 5 THEN "medium"
    ELSE "low"

\* a variant whose second test is `and`
calculate_priority_and(req) ==
    IF ~req.requires_update THEN "none"
    ELSE IF req.impact_level = "high" /\ req.confidence_score > 8 THEN "critical"
    ELSE IF req.impact_level = "high" /\ req.confidence_score > 7 THEN "high"
    ELSE IF req.impact_level = "medium" \/ req.confidence_score > 5 THEN "medium"
    ELSE "low"

\* _calculate_priority
calculate_priority(req) ==
    IF ~req.requires_update THEN "none"
    ELSE IF req.impact_level = "high" /\ req.confidence_score > 8 THEN "critical"
    ELSE IF req.impact_level = "high" \/ req.confidence_score > 7 THEN "high"
    ELSE IF req.impact_level = "medium" \/ req.confidence_score > 5 THEN "medium"
    ELSE "low"

\* the result of a failed analysis
AnalysisError ==
    [ error |-> TRUE, pr_number |-> 0, requires_documentation |-> FALSE,
      priority |-> "none", files_changed |-> 0, suggested_actions |-> << >> ]

\* CommitWatcherAgent.analyze_pr_webhook over GitHubClient.analyze_pr_changes:
\* only a failed read of the PR details is an error; a failed diff read gives
\* diff = None and a failed files read gives files = []
analyze_pr_webhook(pr, detailsOk, diffOk, filesOk) ==
    IF ~detailsOk THEN AnalysisError
    ELSE LET files == IF filesOk THEN PRFiles(pr) ELSE {}
             req == determine_documentation_requirements(files,
                        assess_documentation_impact(files, diffOk, PRDiff(pr)))
         IN  [ error |-> FALSE, pr_number |-> pr,
               requires_documentation |-> req.requires_update,
               priority |-> calculate_priority(req),
               files_changed |-> Cardinality(PRFiles(pr)),
               suggested_actions |-> req.suggested_actions ]

\* ------------------------------------------------------- content generator
\* A line of text is the sequence of its tokens; a text is a sequence of lines.
Blank == << >>

\* str.title() of a priority
Title(p) ==
    CASE p = "none" -> "None"
      [] p = "low" -> "Low"
      [] p = "medium" -> "Medium"
      [] p = "high" -> "High"
      [] p = "critical" -> "Critical"
      [] OTHER -> "Unknown"

\* str() of a small number
NumStr(n) ==
    CASE n = 0 -> "0" [] n = 1 -> "1" [] n = 2 -> "2" [] n = 3 -> "3"
      [] OTHER -> "4"

\* chr(10).join(f"* {action}" for action in suggested_actions)
Bullets(mark, actions) ==
    IF actions = << >> THEN <<Blank>>
    ELSE [i \in 1..Len(actions) |-> <<mark, actions[i]>>]

GeneratedBy ==
    <<"*Generated by DocuSync AI - Automated documentation analysis*">>

\* generate_ai_comment_fallback: the templated text, line by line (the fixed
\* prose of a paragraph is one line of one token)
generate_ai_comment_fallback(a) ==
    IF a.requires_documentation
    THEN << <<"## ", "DocuSync AI Analysis">>, Blank,
            <<"### ", "Technical Change Assessment">>,
            <<"This pull request contains changes that impact documentation.">>,
            Blank,
            <<"**Analysis Summary:**">>,
            <<"- ", "**Impact Priority**: ", Title(a.priority)>>,
            <<"- ", "**Files Modified**: ", NumStr(a.files_changed)>>,
            <<"- ", "**Documentation Updates Required**: ", "Yes">>,
            Blank,
            <<"### ", "Documentation Requirements">>,
            <<"The following documentation updates are recommended:">>,
            Blank >>
         \o Bullets("* ", a.suggested_actions) \o
         << Blank,
            <<"### ", "Implementation Guidance">>,
            <<"1. ", "**Code Review**: Examine changes for new public APIs">>,
            Blank,
            <<"### ", "Action Items">>,
            <<"- [ ] ", "Update README.md with new feature descriptions">>,
            Blank,
            GeneratedBy >>
    ELSE << <<"## ", "DocuSync AI Analysis">>, Blank,
            <<"### ", "Technical Change Assessment">>,
            <<"This pull request appears to be maintenance-focused.">>,
            Blank,
            <<"**Analysis Summary:**">>,
            <<"- ", "**Impact Priority**: ", Title(a.priority)>>,
            <<"- ", "**Files Modified**: ", NumStr(a.files_changed)>>,
            <<"- ", "**Documentation Updates Required**: ", "Minimal or none needed">>,
            Blank,
            <<"### ", "Change Classification">>,
            <<"- ", "Internal refactoring or code improvements">>,
            Blank,
            <<"### ", "Quality Assessment">>,
            <<"No significant documentation updates are required.">>,
            Blank,
            GeneratedBy >>

\* what model.generate_content can do: raise, answer with empty text, or
\* answer with one of these texts
GeminiPlain    == << <<"The change adds a users endpoint.">> >>
GeminiHeadings == << <<"## ", "Change Analysis">>, <<"Adds an endpoint.">> >>
GeminiEcho     == << <<"## ", "Recent Documentation Updates">>, <<"Nothing new.">> >>
GeminiTexts    == {GeminiPlain, GeminiHeadings, GeminiEcho}
LLMOutcomes ==
    { [kind |-> "raise", text |-> << >>], [kind |-> "empty", text |-> << >>] }
    \cup { [kind |-> "text", text |-> x] : x \in GeminiTexts }

\* a generator that lets the exception of the LLM call escape
generate_no_catch(keySet, a, llm) ==
    IF ~keySet \/ llm.kind = "empty"
    THEN [ok |-> TRUE, source |-> "fallback",
          text |-> generate_ai_comment_fallback(a)]
    ELSE IF llm.kind = "raise"
    THEN [ok |-> FALSE, source |-> "none", text |-> << >>]
    ELSE [ok |-> TRUE, source |-> "llm", text |-> llm.text]

\* generate_ai_documentation_with_gemini: ok = FALSE would be an exception
\* that leaves the function
generate_ai_documentation_with_gemini(keySet, a, llm) ==
    IF ~keySet \/ llm.kind = "raise" \/ llm.kind = "empty"
    THEN [ok |-> TRUE, source |-> "fallback",
          text |-> generate_ai_comment_fallback(a)]
    ELSE [ok |-> TRUE, source |-> "llm", text |-> llm.text]

\* ----------------------------------------------------------- README merge
Phrase     == "Recent Documentation Updates"
Whitespace == {" "}
HashMarks  == {"# ", "## ", "### ", "#### "}

SectionHeading == <<"## ", "Recent Documentation Updates">>
Footer ==
    <<"*This documentation update was automatically generated by DocuSync AI*">>

\* f"### PR #{pr_number} - AI-Enhanced Documentation ({timestamp})"
PRHeading(pr) == <<"### ", "PR #", NumStr(pr), " - AI-Enhanced Documentation">>

\* line.startswith(tok), for a prefix that is a token
StartsWith(line, tok) == Len(line) > 0 /\ line[1] = tok

\* line.startswith('#')
StartsWithHash(line) == Len(line) > 0 /\ line[1] \in HashMarks

\* "Recent Documentation Updates" in line
ContainsPhrase(line) == \E k \in 1..Len(line) : line[k] = Phrase

\* line.strip() == ""
IsBlank(line) == \A k \in 1..Len(line) : line[k] \in Whitespace

RECURSIVE LStrip(_)
LStrip(line) ==
    IF line # << >> /\ Head(line) \in Whitespace THEN LStrip(Tail(line)) ELSE line

RECURSIVE RStrip(_)
RStrip(line) ==
    IF line # << >> /\ line[Len(line)] \in Whitespace
    THEN RStrip(SubSeq(line, 1, Len(line) - 1)) ELSE line

\* line.strip()
Strip(line) == RStrip(LStrip(line))

\* the smallest member of a non-empty set of numbers
Min(S) == CHOOSE x \in S : \A y \in S : x <= y

\* the f-string of _generate_enhanced_readme, split at "\n"
documentation_section(pr, insights) ==
    <<Blank, Blank, SectionHeading, Blank, PRHeading(pr), Blank>> \o insights \o
    <<Blank, <<"---">>, Footer, Blank, Blank>>

\* the inner loop of _insert_documentation_section: the index of the first
\* line kept after the section whose heading is line i (n + 1: none is kept)
SectionEnd(lines, i) ==
    LET n == Len(lines)
        stops == {j \in (i + 1)..n :
                     \/ StartsWith(lines[j], "## ") /\ j > i + 1
                     \/ Strip(lines[j]) = Footer}
    IN  IF stops = {} THEN n + 1
        ELSE LET j == Min(stops)
             IN  IF StartsWith(lines[j], "## ") /\ j > i + 1 THEN j ELSE j + 1

\* the else branch of _insert_documentation_section: the number of lines kept
\* before the inserted section
InsertIndex(lines) ==
    LET n == Len(lines)
        hits == {i \in 1..n : \/ StartsWith(lines[i], "# ") /\ i > 1
                              \/ StartsWith(lines[i], "## ") /\ i > 3}
    IN  IF hits = {} THEN n
        ELSE LET i == Min(hits)
             IN  IF StartsWith(lines[i], "# ") /\ i > 1
                 THEN LET js == {j \in (i + 1)..n :
                                    StartsWithHash(lines[j]) \/ j = n}
                      IN  IF js = {} THEN n ELSE Min(js) - 1
                 ELSE i - 1

\* _insert_documentation_section
insert_documentation_section(lines, section) ==
    LET n == Len(lines)
        found == {i \in 1..n : ContainsPhrase(lines[i])}
    IN  IF found # {}
        THEN LET i == Min(found)
                 start == IF i > 1 /\ IsBlank(lines[i - 1]) THEN i - 1 ELSE i
                 end == SectionEnd(lines, i)
             IN  SubSeq(lines, 1, start - 1) \o section \o SubSeq(lines, end, n)
        ELSE LET k == InsertIndex(lines)
             IN  SubSeq(lines, 1, k) \o section \o SubSeq(lines, k + 1, n)

\* _extract_llm_output of the {"output": text} mapping the generator returns
extract_llm_output(content) == content.text

\* the stub a missing README starts from: ("# " + repo + "\n\n").split("\n")
TitleStub == << <<"# ", "app">>, Blank, Blank >>

\* _generate_enhanced_readme (the generator never returns an empty text, so
\* _generate_default_insights is not reached from the pipeline)
generate_enhanced_readme(current_content, pr, content) ==
    insert_documentation_section(current_content,
        documentation_section(pr, extract_llm_output(content)))

\* ------------------------------------------------------------------ state
VARIABLES
    now,                \* datetime.now(), seconds
    recent_pr_updates,  \* the module-level map {pr key: timestamp}
    cfg,                \* WEBHOOK_SECRET and whether GOOGLE_API_KEY is set
    agents,             \* which of commit_agent, readme_agent are constructed
    runs,               \* the bag of running process_webhook_async threads
    started,            \* how many threads github_webhook has started
    http,               \* the last webhook delivery and its HTTP answer
    github,             \* README.md on the head branch of every pull request
    hooks,              \* write-back commits GitHub has not yet reported
    guard,              \* loop-guard specification: one call and its result
    readme,             \* README specification: the content of README.md
    applied,            \* README specification: the write-backs applied
    call,               \* function specifications: one call and its result
    server              \* the server process: starting, serving or exited

vars == <<now, recent_pr_updates, cfg, agents, runs, started, http, github,
          hooks, guard, readme, applied, call, server>>

pipelineVars ==
    <<now, recent_pr_updates, cfg, agents, runs, started, http, github, hooks>>

\* ------------------------------------------------------------------ events
\* the files of the head commit of an event, by commit
CommitFiles(c) ==
    CASE c = "c_code" -> {"README.md", "src/app.py"}
      [] c = "wb"     -> {"README.md"}

Actions == {"opened", "synchronize", "closed"}

\* the pull_request events a user of the repository can cause
UserEvents ==
    [action : Actions, pr : PRs, commit : {"c_code"}]

\* the synchronize event GitHub sends for a write-back commit on the PR branch
WriteBackEvent(pr) == [action |-> "synchronize", pr |-> pr, commit |-> "wb"]

\* ----------------------------------------------------------------- HMAC
NoHeader == << >>

\* "sha256=" + hmac.new(key, msg, sha256).hexdigest(): the digest is a
\* function of the key and of the bytes it was computed over
HmacHeader(key, msg) == <<"sha256=", key, msg>>

SenderKeys == {"bahen", "guess"}
Bodies     == {"this_body", "other_body"}
SigHeaders == {NoHeader} \cup {HmacHeader(k, b) : k \in SenderKeys, b \in Bodies}

\* the header GitHub computes with the secret of the hook
GitHubHeader == HmacHeader("bahen", "this_body")

\* verify_signature
verify_signature(secret, payload_body, signature_header) ==
    IF signature_header = NoHeader \/ secret = "" THEN TRUE
    ELSE HmacHeader(secret, payload_body) = signature_header

\* ------------------------------------------------------------------- runs
NoAnalysis ==
    [ error |-> FALSE, pr_number |-> 0, requires_documentation |-> FALSE,
      priority |-> "none", files_changed |-> 0, suggested_actions |-> << >> ]

NoContent == [ok |-> TRUE, source |-> "none", text |-> << >>]

NoFile == [found |-> FALSE, sha |-> 0, content |-> << >>]

\* a thread at the first line of process_webhook_async
NewRun(ev, t) ==
    [ ev |-> ev, submitted |-> t, pc |-> "guard", decision |-> "",
      fetch_failed |-> FALSE, analysis |-> NoAnalysis, content |-> NoContent,
      current_readme |-> NoFile, read_outcome |-> "", write_calls |-> 0,
      result |-> "", failed_at |-> "" ]

\* the locals of a thread that has left the pipeline
Ended(r, pc, result, failed_at) ==
    [ r EXCEPT !.pc = pc, !.result = result, !.failed_at = failed_at,
               !.submitted = 0, !.analysis = NoAnalysis,
               !.content = NoContent, !.current_readme = NoFile ]

Live == BagToSet(runs)

\* the bag with one copy of r replaced by q
Step(r, q) == (runs (-) SetToBag({r})) (+) SetToBag({q})

ProcessedActions == {"opened", "synchronize", "edited", "reopened"}

TerminalPcs == {"ignored", "skipped", "failed", "done"}

\* a README with a title, an introduction and one section
ReadmeTypical ==
    << <<"# ", "app">>, Blank, <<"An application.">>, Blank,
       <<"## ", "Usage">>, <<"Run it.">>, Blank >>

\* the README.md the branches start from in the pipeline specification
InitialFiles == {NoFile, [found |-> TRUE, sha |-> 1, content |-> ReadmeTypical]}

\* the JSON bodies a delivery can carry: a pull_request payload as GitHub
\* sends it, the JSON value null, an object without "repository", a
\* repository without "full_name", and an object without "pull_request" (or
\* whose pull_request has no number or title)
PayloadShapes ==
    {"full", "null", "no_repository", "no_full_name", "no_pull_request"}

\* the answer of the handler to a delivery
Answer(event_type, sig, jsonOk, shape, status, thread) ==
    [ sig |-> sig, event_type |-> event_type, json |-> jsonOk, shape |-> shape,
      status |-> status, started |-> thread ]

\* no delivery has been answered yet
NoExchange == Answer("", NoHeader, FALSE, "", 0, FALSE)

Init ==
    /\ now = 0
    /\ recent_pr_updates = [k \in {} |-> 0]
    /\ cfg \in [secret : {"bahen"}, google_key : BOOLEAN]
    /\ agents = [commit_agent |-> FALSE, readme_agent |-> FALSE]
    /\ runs = EmptyBag
    /\ started = 0
    /\ http = NoExchange
    /\ \E f \in InitialFiles : github = [p \in PRs |-> f]
    /\ hooks = {}
    /\ guard = [phase |-> "idle"]
    /\ readme = << >>
    /\ applied = << >>
    /\ call = [phase |-> "idle"]
    /\ server = "serving"

\* ----------------------------------------------------------------- actions
TickClock ==
    /\ now + Tick <= MaxTime
    /\ now' = now + Tick
    /\ UNCHANGED <<recent_pr_updates, cfg, agents, runs, started, http, github,
                   hooks, guard, readme, applied, call, server>>

\* github_webhook: the Flask handler of POST /webhook; an exception that
\* leaves the handler (a KeyError of a subscript) is answered 500 by Flask
github_webhook(event_type, ev, sig, jsonOk, shape) ==
    IF ~verify_signature(cfg.secret, "this_body", sig)
    THEN /\ http' = Answer(event_type, sig, jsonOk, shape, 401, FALSE)
         /\ UNCHANGED <<runs, started>>
    ELSE IF ~jsonOk
    THEN /\ http' = Answer(event_type, sig, jsonOk, shape, 400, FALSE)
         /\ UNCHANGED <<runs, started>>
    ELSE IF shape \in {"null", "no_repository"}
    THEN /\ http' = Answer(event_type, sig, jsonOk, shape, 200, FALSE)
         /\ UNCHANGED <<runs, started>>
    ELSE IF shape = "no_full_name"
    THEN /\ http' = Answer(event_type, sig, jsonOk, shape, 500, FALSE)
         /\ UNCHANGED <<runs, started>>
    ELSE IF event_type = "pull_request" /\ shape = "no_pull_request"
    THEN /\ http' = Answer(event_type, sig, jsonOk, shape, 500, FALSE)
         /\ UNCHANGED <<runs, started>>
    ELSE IF event_type = "pull_request"
    THEN /\ started < MaxRuns
         /\ http' = Answer(event_type, sig, jsonOk, shape, 200, TRUE)
         /\ runs' = runs (+) SetToBag({NewRun(ev, now)})
         /\ started' = started + 1
    ELSE /\ http' = Answer(event_type, sig, jsonOk, shape, 200, FALSE)
         /\ UNCHANGED <<runs, started>>

\* GitHub delivers a pull_request event a user caused
Deliver ==
    /\ \E ev \in UserEvents :
          github_webhook("pull_request", ev, GitHubHeader, TRUE, "full")
    /\ UNCHANGED <<now, recent_pr_updates, cfg, agents, github, hooks,
                   guard, readme, applied, call, server>>

\* GitHub reports a write-back commit
DeliverHook ==
    /\ \E p \in hooks :
          /\ github_webhook("pull_request", WriteBackEvent(p), GitHubHeader, TRUE,
                            "full")
          /\ hooks' = hooks \ {p}
    /\ UNCHANGED <<now, recent_pr_updates, cfg, agents, github,
                   guard, readme, applied, call, server>>

\* process_webhook_async up to the action filter: should_ignore_webhook, which
\* also purges the map, then `if action in [...]`
ShouldIgnore(r) ==
    /\ r.pc = "guard"
    /\ \E fetchOk \in BOOLEAN :
          LET d == should_ignore_webhook(recent_pr_updates, now, r.ev.action,
                       r.ev.pr, TRUE, CommitFiles(r.ev.commit), fetchOk)
          IN  runs' = Step(r, [r EXCEPT
                  !.decision = d,
                  !.pc = IF d # "pass" THEN "ignored"
                         ELSE IF r.ev.action \in ProcessedActions
                              THEN "init" ELSE "skipped"])
    /\ recent_pr_updates' = cleanup_old_pr_updates(recent_pr_updates, now)
    /\ UNCHANGED <<now, cfg, agents, started, http, github, hooks,
                   guard, readme, applied, call, server>>

\* init_agents with the outcome of the two constructors
init_agents(outcome) ==
    IF agents.commit_agent THEN agents
    ELSE IF outcome = "ok" THEN [commit_agent |-> TRUE, readme_agent |-> TRUE]
    ELSE IF outcome = "readme_raises"
         THEN [commit_agent |-> TRUE, readme_agent |-> FALSE]
    ELSE agents

\* init_agents returns True
init_agents_ok(outcome) == agents.commit_agent \/ outcome = "ok"

\* the outcomes of the constructors the pipeline specification considers
InitOutcomes == {"ok", "commit_raises"}

\* a variant that goes on to Step 1 without writing the timestamp
RecordStart_unrecorded(r) ==
    /\ r.pc = "init"
    /\ \E outcome \in InitOutcomes :
          /\ agents' = init_agents(outcome)
          /\ recent_pr_updates' = recent_pr_updates
          /\ IF init_agents_ok(outcome)
             THEN runs' = Step(r, [r EXCEPT !.pc = "analyze"])
             ELSE runs' = Step(r, Ended(r, "failed", "", "init"))
    /\ UNCHANGED <<now, cfg, started, http, github, hooks, guard, readme, applied, call, server>>

\* process_webhook_async, lines 189-201: init_agents, then the timestamp
RecordStartFrom(r, outcomes) ==
    /\ r.pc = "init"
    /\ \E outcome \in outcomes :
          /\ agents' = init_agents(outcome)
          /\ IF init_agents_ok(outcome)
             THEN /\ recent_pr_updates' =
                        [k \in DOMAIN recent_pr_updates \cup {r.ev.pr} |->
                            IF k = r.ev.pr THEN now ELSE recent_pr_updates[k]]
                  /\ runs' = Step(r, [r EXCEPT !.pc = "analyze"])
             ELSE /\ recent_pr_updates' = recent_pr_updates
                  /\ runs' = Step(r, Ended(r, "failed", "", "init"))
    /\ UNCHANGED <<now, cfg, started, http, github, hooks, guard, readme, applied, call, server>>

RecordStart(r) == RecordStartFrom(r, InitOutcomes)

\* the outcomes of the three GitHub reads of analyze_pr_changes: at most one
\* of them fails
ReadOutcomes ==
    { [details |-> TRUE, diff |-> TRUE, files |-> TRUE],
      [details |-> FALSE, diff |-> TRUE, files |-> TRUE],
      [details |-> TRUE, diff |-> FALSE, files |-> TRUE],
      [details |-> TRUE, diff |-> TRUE, files |-> FALSE] }

\* Step 1: commit_agent.analyze_pr_webhook(payload), then `if 'error' in`
Analyze(r) ==
    /\ r.pc = "analyze"
    /\ \E o \in ReadOutcomes :
          LET a == analyze_pr_webhook(r.ev.pr, o.details, o.diff, o.files)
              failed == ~(o.details /\ o.diff /\ o.files)
          IN  runs' = Step(r,
                  IF a.error
                  THEN [Ended(r, "failed", "", "analyze") EXCEPT
                           !.fetch_failed = failed]
                  ELSE [r EXCEPT !.analysis = a, !.fetch_failed = failed,
                                 !.pc = "generate"])
    /\ UNCHANGED <<now, recent_pr_updates, cfg, agents, started, http, github,
                   hooks, guard, readme, applied, call, server>>

\* the answers of the LLM the pipeline specification considers
PipelineLLM == {o \in LLMOutcomes : o.kind = "text" => o.text = GeminiPlain}

\* a variant whose Step 3 test is `if pr_analysis.get('requires_documentation')`
\* without the `or True`: the else branch skips the README update
GenerateFrom_skipping(r, answers) ==
    /\ r.pc = "generate"
    /\ \E llm \in answers :
          LET c == generate_ai_documentation_with_gemini(cfg.google_key,
                       r.analysis, llm)
          IN  runs' = Step(r,
                  IF r.analysis.requires_documentation
                  THEN [r EXCEPT !.content = c, !.pc = "read"]
                  ELSE Ended(r, "skipped", "", ""))
    /\ UNCHANGED <<now, recent_pr_updates, cfg, agents, started, http, github,
                   hooks, guard, readme, applied, call, server>>

\* Step 2: the diff is fetched for the prompt (a failure is only logged) and
\* generate_ai_documentation_with_gemini is called
GenerateFrom(r, answers) ==
    /\ r.pc = "generate"
    /\ \E llm \in answers :
          LET c == generate_ai_documentation_with_gemini(cfg.google_key,
                       r.analysis, llm)
          IN  runs' = Step(r,
                  IF c.ok THEN [r EXCEPT !.content = c, !.pc = "read"]
                  ELSE Ended(r, "failed", "", "generate"))
    /\ UNCHANGED <<now, recent_pr_updates, cfg, agents, started, http, github,
                   hooks, guard, readme, applied, call, server>>

Generate(r) == GenerateFrom(r, PipelineLLM)

\* Step 3, first half: readme_agent.update_readme_with_ai_insights up to the
\* answer of get_file_content, which is None on a 404 and on any other failure
ReadReadme(r) ==
    /\ r.pc = "read"
    /\ IF ~agents.readme_agent
       THEN runs' = Step(r, Ended(r, "failed", "", "write"))
       ELSE \E outcome \in {"ok", "404", "error"} :
               /\ outcome = "ok" => github[r.ev.pr].found
               /\ outcome = "404" => ~github[r.ev.pr].found
               /\ runs' = Step(r, [r EXCEPT
                      !.current_readme =
                          IF outcome = "ok" THEN github[r.ev.pr] ELSE NoFile,
                      !.read_outcome = outcome,
                      !.pc = "write"])
    /\ UNCHANGED <<now, recent_pr_updates, cfg, agents, started, http, github,
                   hooks, guard, readme, applied, call, server>>

\* a variant of update_file_content that always looks the SHA up itself (the
\* `if not current_sha` branch) instead of sending the SHA that was read
update_file_refetch(current_sha, file, apiOk) ==
    apiOk /\ file.found

\* GitHubClient.update_file_content with the SHA the caller read: the PUT is
\* accepted only if the request succeeds and the SHA is the current one of
\* the file on the branch
update_file_content(current_sha, file, apiOk) ==
    apiOk /\ file.found /\ file.sha = current_sha

\* GitHubClient.create_file_content: a PUT without SHA, accepted only if the
\* request succeeds and the branch has no such file
create_file_content(file, apiOk) ==
    apiOk /\ ~file.found

\* Step 3, second half: the merge, then update_file_content with the SHA that
\* was read, or create_file_content when nothing was read; GitHub accepts an
\* update only on the current SHA and a creation only of a missing file
WriteReadme(r) ==
    /\ r.pc = "write"
    /\ \E apiOk \in BOOLEAN :
          LET p == r.ev.pr
              cur == r.current_readme
              current_content == IF cur.found THEN cur.content ELSE TitleStub
              enhanced == generate_enhanced_readme(current_content,
                              r.analysis.pr_number, r.content)
              success == IF cur.found
                         THEN update_file_content(cur.sha, github[p], apiOk)
                         ELSE create_file_content(github[p], apiOk)
          IN  /\ runs' = Step(r,
                     [Ended(r, "done", IF success THEN "success" ELSE "error", "")
                         EXCEPT !.write_calls = r.write_calls + 1,
                                !.current_readme = [cur EXCEPT !.content = << >>]])
              /\ github' = IF success
                           THEN [github EXCEPT ![p] =
                                    [found |-> TRUE, sha |-> github[p].sha + 1,
                                     content |-> enhanced]]
                           ELSE github
              /\ hooks' = IF success THEN hooks \cup {p} ELSE hooks
    /\ UNCHANGED <<now, recent_pr_updates, cfg, agents, started, http,
                   guard, readme, applied, call, server>>

\* process_webhook_async returns and the thread ends
ThreadExit(r) ==
    /\ r.pc \in TerminalPcs
    /\ runs' = runs (-) SetToBag({r})
    /\ UNCHANGED <<now, recent_pr_updates, cfg, agents, started, http, github,
                   hooks, guard, readme, applied, call, server>>

Next ==
    \/ TickClock
    \/ Deliver
    \/ DeliverHook
    \/ \E r \in Live : ShouldIgnore(r)
    \/ \E r \in Live : RecordStart(r)
    \/ \E r \in Live : Analyze(r)
    \/ \E r \in Live : Generate(r)
    \/ \E r \in Live : ReadReadme(r)
    \/ \E r \in Live : WriteReadme(r)
    \/ \E r \in Live : ThreadExit(r)

Spec == Init /\ [][Next]_vars

\* ------------------------------------------------- single-run specification
\* one thread of process_webhook_async from its first line to its return, for
\* every event, every state init_agents can have left the agents in and every
\* answer of the LLM
AgentStates ==
    { [commit_agent |-> FALSE, readme_agent |-> FALSE],
      [commit_agent |-> TRUE, readme_agent |-> TRUE],
      [commit_agent |-> TRUE, readme_agent |-> FALSE] }

InitRun ==
    /\ now = 0
    /\ recent_pr_updates = [k \in {} |-> 0]
    /\ cfg \in [secret : {"bahen"}, google_key : BOOLEAN]
    /\ agents \in AgentStates
    /\ \E ev \in UserEvents \cup {WriteBackEvent(p) : p \in PRs} :
          runs = SetToBag({NewRun(ev, 0)})
    /\ started = 1
    /\ http = NoExchange
    /\ \E f \in InitialFiles : github = [p \in PRs |-> f]
    /\ hooks = {}
    /\ guard = [phase |-> "idle"]
    /\ readme = << >>
    /\ applied = << >>
    /\ call = [phase |-> "idle"]
    /\ server = "serving"

NextRun ==
    \/ TickClock
    \/ \E r \in Live : ShouldIgnore(r)
    \/ \E r \in Live : RecordStart(r)
    \/ \E r \in Live : Analyze(r)
    \/ \E r \in Live : GenerateFrom(r, LLMOutcomes)
    \/ \E r \in Live : ReadReadme(r)
    \/ \E r \in Live : WriteReadme(r)
    \/ \E r \in Live : ThreadExit(r)

SpecRun == InitRun /\ [][NextRun]_vars

\* ---------------------------------------------------- stall specification
\* One thread as above, with external services that may never answer.  Every
\* outbound call of the pipeline is `requests.get/put(url, headers=...)` or
\* model.generate_content(prompt) with no timeout argument, so a call that
\* gets no answer blocks its thread for good.

\* the thread stands before a step that begins with an outbound call:
\* check_commit_files_changed in the loop guard (synchronize events that are
\* not suppressed as recent), the reads of the analysis, get_pr_diff and the
\* LLM call of Step 2, get_file_content and the write of Step 3
MakesOutboundCall(r) ==
    \/ r.pc \in {"analyze", "generate", "read", "write"}
    \/ /\ r.pc = "guard"
       /\ r.ev.action = "synchronize"
       /\ ~RecentlyProcessed(cleanup_old_pr_updates(recent_pr_updates, now),
                             r.ev.pr, now)

\* the service never answers the call
Stall(r) ==
    /\ MakesOutboundCall(r)
    /\ runs' = Step(r, [r EXCEPT !.pc = "blocked"])
    /\ UNCHANGED <<now, recent_pr_updates, cfg, agents, started, http, github,
                   hooks, guard, readme, applied, call, server>>

NextStall ==
    \/ NextRun
    \/ \E r \in Live : Stall(r)

\* the scheduler runs every thread that can take a step
SpecStall == InitRun /\ [][NextStall]_vars /\ WF_vars(NextStall)

\* ------------------------------------------------- write-back specification
\* MaxRuns threads that have passed the loop guard (together, or for
\* different pull requests) and stand before Step 3 with their content
RunAtRead(pr) ==
    LET a == analyze_pr_webhook(pr, TRUE, TRUE, TRUE)
    IN  [ NewRun([action |-> "synchronize", pr |-> pr, commit |-> "c_code"], 0)
            EXCEPT !.pc = "read", !.decision = "pass", !.analysis = a,
                   !.content = generate_ai_documentation_with_gemini(FALSE, a,
                                   [kind |-> "raise", text |-> << >>]) ]

RECURSIVE RunsOf(_)
RunsOf(ps) ==
    IF ps = << >> THEN EmptyBag
    ELSE SetToBag({RunAtRead(Head(ps))}) (+) RunsOf(Tail(ps))

InitWrite ==
    /\ now = 0
    /\ \E ps \in [1..MaxRuns -> PRs] :
          /\ runs = RunsOf(ps)
          /\ recent_pr_updates = [p \in {ps[i] : i \in 1..MaxRuns} |-> 0]
    /\ cfg = [secret |-> "bahen", google_key |-> FALSE]
    /\ agents = [commit_agent |-> TRUE, readme_agent |-> TRUE]
    /\ started = MaxRuns
    /\ http = NoExchange
    /\ \E f \in InitialFiles : github = [p \in PRs |-> f]
    /\ hooks = {}
    /\ guard = [phase |-> "idle"]
    /\ readme = << >>
    /\ applied = << >>
    /\ call = [phase |-> "idle"]
    /\ server = "serving"

NextWrite ==
    \/ \E r \in Live : ReadReadme(r)
    \/ \E r \in Live : WriteReadme(r)
    \/ \E r \in Live : ThreadExit(r)

SpecWrite == InitWrite /\ [][NextWrite]_vars

\* ------------------------------------------------ entrypoint specification
\* The three servers of the repository that receive GitHub deliveries: the
\* Flask server of backend/agents/webhook_server_integrated.py, the FastAPI
\* router of backend/app/api/v1/webhooks.py and the Flask server of
\* webhook_server.py.  One behaviour is one of them running.
Programs == {"integrated", "api", "simple"}

NotPrefix(t) == t # "sha256="

\* webhooks.py verify_github_signature: a missing header is refused, the
\* prefix is removed and the rest compared with the hexdigest under the secret
verify_github_signature(secret, payload, signature) ==
    IF signature = NoHeader THEN FALSE
    ELSE SelectSeq(signature, NotPrefix) = SelectSeq(HmacHeader(secret, payload), NotPrefix)

\* webhook_server.py verify_signature: a missing header is refused
simple_verify_signature(secret, payload_body, signature_header) ==
    IF signature_header = NoHeader THEN FALSE
    ELSE HmacHeader(secret, payload_body) = signature_header

\* webhooks.py handle_pull_request_event: the workflow is started (the id is
\* not None) for these actions, if the call of the workflow server succeeds
ApiProcessedActions == {"opened", "synchronize", "reopened"}

handle_pull_request_event(action, orkesOk) ==
    action \in ApiProcessedActions /\ orkesOk

EntryActions == {"opened", "synchronize", "edited", "reopened", "closed"}

EntryEvents == [action : EntryActions, pr : PRs, commit : {"c_code"}]

ApiEventTypes == {"pull_request", "ping", "star"}

\* the answer of the FastAPI router; the fields after `json` are what the
\* handler has looked at when it answers
ApiAnswer(sig, status, seen, thread) ==
    [ entry |-> "api", sig |-> sig, status |-> status, seen |-> seen,
      started |-> thread ]

\* webhooks.py github_webhook (POST /webhooks/github)
api_github_webhook(event_type, action, sig, jsonOk, hasRepo, monitored, orkesOk) ==
    IF ~verify_github_signature(cfg.secret, "this_body", sig)
    THEN http' = ApiAnswer(sig, 401, << >>, FALSE)
    ELSE IF ~jsonOk
    THEN http' = ApiAnswer(sig, 400, << >>, FALSE)
    ELSE IF ~hasRepo
    THEN http' = ApiAnswer(sig, 200, <<"no repository">>, FALSE)
    ELSE IF ~monitored
    THEN http' = ApiAnswer(sig, 200, <<"not monitored">>, FALSE)
    ELSE IF event_type = "pull_request"
    THEN http' = ApiAnswer(sig, 200, <<event_type, action, orkesOk>>,
                     handle_pull_request_event(action, orkesOk))
    ELSE http' = ApiAnswer(sig, 200, <<event_type>>, FALSE)

\* webhook_server.py github_webhook: it verifies and logs, it starts nothing
simple_github_webhook(sig, jsonOk) ==
    IF ~simple_verify_signature(cfg.secret, "this_body", sig)
    THEN http' = [entry |-> "simple", sig |-> sig, status |-> 401, started |-> FALSE]
    ELSE IF ~jsonOk
    THEN http' = [entry |-> "simple", sig |-> sig, status |-> 400, started |-> FALSE]
    ELSE http' = [entry |-> "simple", sig |-> sig, status |-> 200, started |-> FALSE]

InitEntry ==
    /\ now = 0
    /\ recent_pr_updates = [k \in {} |-> 0]
    /\ cfg \in [secret : {"bahen", ""}, google_key : {FALSE}, program : Programs]
    /\ agents = [commit_agent |-> FALSE, readme_agent |-> FALSE]
    /\ runs = EmptyBag
    /\ started = 0
    /\ http = NoExchange
    /\ github = [p \in PRs |-> NoFile]
    /\ hooks = {}
    /\ guard = [phase |-> "idle"]
    /\ readme = << >>
    /\ applied = << >>
    /\ call = [phase |-> "idle"]
    /\ server = "serving"

PostIntegrated ==
    /\ cfg.program = "integrated"
    /\ \E ev \in EntryEvents, sig \in SigHeaders :
          github_webhook("pull_request", ev, sig, TRUE, "full")
    /\ UNCHANGED <<now, recent_pr_updates, cfg, agents, github, hooks,
                   guard, readme, applied, call, server>>

PostApi ==
    /\ cfg.program = "api"
    /\ \E event_type \in ApiEventTypes, action \in EntryActions,
          sig \in SigHeaders, jsonOk \in BOOLEAN, hasRepo \in BOOLEAN,
          monitored \in BOOLEAN, orkesOk \in BOOLEAN :
            api_github_webhook(event_type, action, sig, jsonOk, hasRepo,
                               monitored, orkesOk)
    /\ UNCHANGED <<now, recent_pr_updates, cfg, agents, runs, started, github,
                   hooks, guard, readme, applied, call, server>>

PostSimple ==
    /\ cfg.program = "simple"
    /\ \E sig \in SigHeaders, jsonOk \in BOOLEAN : simple_github_webhook(sig, jsonOk)
    /\ UNCHANGED <<now, recent_pr_updates, cfg, agents, runs, started, github,
                   hooks, guard, readme, applied, call, server>>

NextEntry ==
    \/ PostIntegrated
    \/ PostApi
    \/ PostSimple
    \/ \E r \in Live : ShouldIgnore(r)
    \/ \E r \in Live : ThreadExit(r)

SpecEntry == InitEntry /\ [][NextEntry]_vars

\* ---------------------------------------------------- start-up specification
\* The two programs of backend/agents that are started from the command line,
\* with and without GITHUB_TOKEN in the environment: main.py and
\* webhook_server_integrated.py.  A run is followed through the loop guard
\* and init_agents, up to its first call of an agent.
StartPrograms == {"agents_main", "integrated"}

\* main.py main(): `if missing_vars: ... return False`, else manager.run();
\* this program has no webhook endpoint
main ==
    /\ server = "starting"
    /\ cfg.program = "agents_main"
    /\ server' = IF cfg.github_token THEN "serving" ELSE "exited"
    /\ UNCHANGED <<now, recent_pr_updates, cfg, agents, runs, started, http,
                   github, hooks, guard, readme, applied, call>>

\* webhook_server_integrated.py `if __name__ == '__main__'`: the banner
\* prints "Missing" for an empty token, then app.run()
integrated_main ==
    /\ server = "starting"
    /\ cfg.program = "integrated"
    /\ server' = "serving"
    /\ UNCHANGED <<now, recent_pr_updates, cfg, agents, runs, started, http,
                   github, hooks, guard, readme, applied, call>>

\* a delivery at POST /webhook of the running Flask server
PostStart ==
    /\ server = "serving"
    /\ cfg.program = "integrated"
    /\ \E ev \in EntryEvents, sig \in SigHeaders :
          github_webhook("pull_request", ev, sig, TRUE, "full")
    /\ UNCHANGED <<now, recent_pr_updates, cfg, agents, github, hooks,
                   guard, readme, applied, call, server>>

InitStart ==
    /\ now = 0
    /\ recent_pr_updates = [k \in {} |-> 0]
    /\ cfg \in [secret : {"bahen"}, google_key : {FALSE},
                 github_token : BOOLEAN, program : StartPrograms]
    /\ agents = [commit_agent |-> FALSE, readme_agent |-> FALSE]
    /\ runs = EmptyBag
    /\ started = 0
    /\ http = NoExchange
    /\ github = [p \in PRs |-> NoFile]
    /\ hooks = {}
    /\ guard = [phase |-> "idle"]
    /\ readme = << >>
    /\ applied = << >>
    /\ call = [phase |-> "idle"]
    /\ server = "starting"

NextStart ==
    \/ main
    \/ integrated_main
    \/ PostStart
    \/ \E r \in Live : ShouldIgnore(r)
    \/ \E r \in Live : RecordStart(r)
    \/ \E r \in Live : ThreadExit(r)

SpecStart == InitStart /\ [][NextStart]_vars

\* ------------------------------------------ write-back result specification
\* The two modes of the write-back engine as functions of their inputs and of
\* the answers of GitHub: update_readme_with_ai_insights (README mode) and
\* post_github_comment (comment mode).  A result is the dict the function
\* returns, with exactly the keys it has.

\* pr_analysis.get('repository', ''), as the sequence of its characters
RepoNames ==
    { << >>, <<"o", "/", "r">>, <<"r">>, <<"o", "/", "r", "/", "x">> }

\* `owner, repo = repo_full_name.split('/')` raises ValueError unless split
\* gives two parts
SplitParts(s) == Cardinality({i \in 1..Len(s) : s[i] = "/"}) + 1

\* pr_analysis.get('pr_number'): None, 0 or a number
PrNumbers == { << >>, <<0>>, <<7>> }

\* Python's `not x` for a string, for a number or None, and for a reference
\* or None
EmptyStr(x) == x = << >>

NoNumber(x) == x \in { << >>, <<0>> }

NoRef(x) == x \in {"None", ""}

\* webhook_payload['pull_request'].get('head', {}).get('ref')
HeadRefs == {"None", "feature"}

\* get_pr_details(...).get('head', {}).get('ref'), or the call failing
\* (get_pr_details returns None)
PrDetailRefs == {"failed", "None", "feature"}

\* readme_updater_agent.py _get_pr_branch
get_pr_branch(head_ref, pr_details) ==
    IF ~NoRef(head_ref) THEN head_ref
    ELSE IF pr_details = "failed" THEN "None"
    ELSE pr_details

\* what building the new content or the comment body does
BodyOutcomes == {"ok", "raises"}

update_readme_with_ai_insights(repository, pr_number, head_ref, pr_details, found, body, success) ==
    IF EmptyStr(repository) \/ NoNumber(pr_number)
    THEN [error |-> "Missing repository or PR number information"]
    ELSE IF SplitParts(repository) # 2
    THEN [error |-> "Invalid repository format"]
    ELSE IF NoRef(get_pr_branch(head_ref, pr_details))
    THEN [error |-> "Could not determine PR branch"]
    ELSE IF body = "raises"
    THEN [status |-> "error", message |-> "exception"]
    ELSE IF success
    THEN [status |-> "success", message |-> "README.md updated",
          branch |-> get_pr_branch(head_ref, pr_details), created |-> ~found]
    ELSE [status |-> "error", message |-> "Failed to update README.md file"]

post_github_comment(repository, pr_number, body, success) ==
    IF EmptyStr(repository) \/ NoNumber(pr_number)
    THEN [error |-> "Missing repository or PR number information"]
    ELSE IF SplitParts(repository) # 2
    THEN [error |-> "Invalid repository format"]
    ELSE IF body = "raises"
    THEN [status |-> "error", message |-> "exception"]
    ELSE IF success
    THEN [status |-> "success", message |-> "Comment posted"]
    ELSE [status |-> "error", message |-> "Failed to post comment to GitHub"]

InitEngine ==
    /\ now = 0
    /\ recent_pr_updates = [k \in {} |-> 0]
    /\ cfg = [secret |-> "bahen", google_key |-> TRUE]
    /\ agents = [commit_agent |-> TRUE, readme_agent |-> TRUE]
    /\ runs = EmptyBag
    /\ started = 0
    /\ http = NoExchange
    /\ github = [p \in PRs |-> NoFile]
    /\ hooks = {}
    /\ guard = [phase |-> "idle"]
    /\ readme = << >>
    /\ applied = << >>
    /\ call = [phase |-> "idle"]
    /\ server = "serving"

CallReadmeMode ==
    /\ call.phase = "idle"
    /\ \E repository \in RepoNames, pr_number \in PrNumbers,
          head_ref \in HeadRefs, pr_details \in PrDetailRefs,
          found \in BOOLEAN, body \in BodyOutcomes, success \in BOOLEAN :
            call' = [ phase |-> "returned", target |-> "readme",
                      args |-> <<repository, pr_number, head_ref, pr_details,
                                 found, body, success>>,
                      result |-> update_readme_with_ai_insights(repository,
                                    pr_number, head_ref, pr_details, found,
                                    body, success) ]
    /\ UNCHANGED <<now, recent_pr_updates, cfg, agents, runs, started, http,
                   github, hooks, guard, readme, applied, server>>

CallCommentMode ==
    /\ call.phase = "idle"
    /\ \E repository \in RepoNames, pr_number \in PrNumbers,
          body \in BodyOutcomes, success \in BOOLEAN :
            call' = [ phase |-> "returned", target |-> "comment",
                      args |-> <<repository, pr_number, body, success>>,
                      result |-> post_github_comment(repository, pr_number,
                                    body, success) ]
    /\ UNCHANGED <<now, recent_pr_updates, cfg, agents, runs, started, http,
                   github, hooks, guard, readme, applied, server>>

NextEngine == CallReadmeMode \/ CallCommentMode

SpecEngine == InitEngine /\ [][NextEngine]_vars

\* ------------------------------------------------- agent-set specification
\* Deliveries to the Flask server whose threads call init_agents one after
\* another, every constructor being able to raise.  A run is followed up to
\* Step 1.
AllInitOutcomes == {"ok", "commit_raises", "readme_raises"}

InitAgents ==
    /\ now = 0
    /\ recent_pr_updates = [k \in {} |-> 0]
    /\ cfg = [secret |-> "bahen", google_key |-> FALSE]
    /\ agents = [commit_agent |-> FALSE, readme_agent |-> FALSE]
    /\ runs = EmptyBag
    /\ started = 0
    /\ http = NoExchange
    /\ github = [p \in PRs |-> NoFile]
    /\ hooks = {}
    /\ guard = [phase |-> "idle"]
    /\ readme = << >>
    /\ applied = << >>
    /\ call = [phase |-> "idle"]
    /\ server = "serving"

NextAgents ==
    \/ Deliver
    \/ \E r \in Live : ShouldIgnore(r)
    \/ \E r \in Live : RecordStartFrom(r, AllInitOutcomes)
    \/ \E r \in Live : ThreadExit(r)

SpecAgents == InitAgents /\ [][NextAgents]_vars

\* ---------------------------------------------------- handler specification
\* POST /webhook for every sender, header, event type and body
InitHttp ==
    /\ now = 0
    /\ recent_pr_updates = [k \in {} |-> 0]
    /\ cfg \in [secret : {"bahen", ""}, google_key : {FALSE}]
    /\ agents = [commit_agent |-> FALSE, readme_agent |-> FALSE]
    /\ runs = EmptyBag
    /\ started = 0
    /\ http = NoExchange
    /\ github = [p \in PRs |-> NoFile]
    /\ hooks = {}
    /\ guard = [phase |-> "idle"]
    /\ readme = << >>
    /\ applied = << >>
    /\ call = [phase |-> "idle"]
    /\ server = "serving"

\* a delivery from anybody who can reach the endpoint
Post ==
    /\ \E event_type \in {"pull_request", "push"}, ev \in UserEvents,
          sig \in SigHeaders, jsonOk \in BOOLEAN, shape \in PayloadShapes :
            github_webhook(event_type, ev, sig, jsonOk, shape)
    /\ UNCHANGED <<now, recent_pr_updates, cfg, agents, github, hooks,
                   guard, readme, applied, call, server>>

NextHttp == Post \/ TickClock

SpecHttp == InitHttp /\ [][NextHttp]_vars

\* ------------------------------------------------ loop-guard specification
\* should_ignore_webhook as a function of its inputs: the payload, the file
\* list of the head commit, the outcome of the lookup and the map
GuardAges == {0, 179, 180, 600, 601}

SmallSets(S, n) == {x \in SUBSET S : Cardinality(x) <= n}

InitGuard ==
    /\ now = MaxTime + 601
    /\ \E S \in SUBSET PRs : recent_pr_updates \in [S -> {now - a : a \in GuardAges}]
    /\ guard \in [ phase : {"input"}, action : Actions, pr : 0..NumPRs,
                   hasSha : BOOLEAN, files : SmallSets(Filenames, MaxFiles),
                   fetchOk : BOOLEAN, before : {recent_pr_updates},
                   result : {""} ]
    /\ cfg = [secret |-> "bahen", google_key |-> FALSE]
    /\ agents = [commit_agent |-> FALSE, readme_agent |-> FALSE]
    /\ runs = EmptyBag
    /\ started = 0
    /\ http = NoExchange
    /\ github = [p \in PRs |-> NoFile]
    /\ hooks = {}
    /\ readme = << >>
    /\ applied = << >>
    /\ call = [phase |-> "idle"]
    /\ server = "serving"

GuardCall ==
    /\ guard.phase = "input"
    /\ guard' = [guard EXCEPT
           !.phase = "output",
           !.result = should_ignore_webhook(recent_pr_updates, now, guard.action,
                          guard.pr, guard.hasSha, guard.files, guard.fetchOk)]
    /\ recent_pr_updates' = cleanup_old_pr_updates(recent_pr_updates, now)
    /\ UNCHANGED <<now, cfg, agents, runs, started, http, github, hooks,
                   readme, applied, call, server>>

NextGuard == GuardCall

SpecGuard == InitGuard /\ [][NextGuard]_vars

\* ---------------------------------------------------- README specification
\* successive successful write-backs into one README.md
ReadmeTwoSections ==
    << <<"# ", "app">>, Blank, SectionHeading, <<"Old notes.">>, Blank,
       <<"## ", "Usage">>, <<"Run it.">>, Blank,
       SectionHeading, <<"Older notes.">> >>

ReadmeMention ==
    << <<"# ", "app">>, Blank,
       <<"See ", "Recent Documentation Updates", " below.">>, Blank,
       <<"## ", "Usage">>, <<"Run it.">> >>

ReadmeNoTitle ==
    << <<"## ", "Install">>, <<"pip install app">>, Blank,
       <<"## ", "Usage">>, <<"Run it.">> >>

\* a managed section that was emptied by hand: the next heading directly
\* follows the heading line
ReadmeAdjacent ==
    << <<"# ", "app">>, Blank, SectionHeading,
       <<"## ", "Usage">>, <<"Run it.">>, Blank,
       <<"## ", "License">>, <<"MIT">> >>

InitialReadmes ==
    {TitleStub, ReadmeTypical, ReadmeTwoSections, ReadmeMention, ReadmeNoTitle,
     ReadmeAdjacent}

\* what the generator can hand to the write-back for a pull request
ContentsFor(pr) ==
    { generate_ai_documentation_with_gemini(k,
          analyze_pr_webhook(pr, TRUE, TRUE, TRUE), llm) :
      k \in BOOLEAN, llm \in LLMOutcomes }

InitReadme ==
    /\ readme \in InitialReadmes
    /\ applied = << >>
    /\ call = [phase |-> "idle"]
    /\ server = "serving"
    /\ now = 0
    /\ recent_pr_updates = [k \in {} |-> 0]
    /\ cfg = [secret |-> "bahen", google_key |-> FALSE]
    /\ agents = [commit_agent |-> TRUE, readme_agent |-> TRUE]
    /\ runs = EmptyBag
    /\ started = 0
    /\ http = NoExchange
    /\ github = [p \in PRs |-> NoFile]
    /\ hooks = {}
    /\ guard = [phase |-> "idle"]

\* one successful update_readme_with_ai_insights on the README
ApplyWriteBack ==
    /\ Len(applied) < MaxWrites
    /\ \E pr \in PRs : \E c \in ContentsFor(pr) :
          /\ applied # << >> => pr > applied[Len(applied)].pr
          /\ readme' = generate_enhanced_readme(readme, pr, c)
          /\ applied' = Append(applied, [pr |-> pr, text |-> c.text, before |-> readme])
    /\ UNCHANGED pipelineVars
    /\ UNCHANGED <<guard, call, server>>

NextReadme == ApplyWriteBack

SpecReadme == InitReadme /\ [][NextReadme]_vars

\* ------------------------------------------------- classifier specification
\* The change classifier as a function of the files of a pull request and of
\* its diff: _analyze_file_changes, _assess_documentation_impact,
\* _determine_documentation_requirements and _calculate_priority, as
\* analyze_pr_changes and analyze_pr_webhook call them.
ClassifierFiles ==
    { "src/api/users.py", "main.go", "config.yml", "setup.cfg",
      "CHANGELOG.md", "README.md", "docs/guide.rst" }

\* the lower-cased diff, as the set of its tokens
DiffTokens == {"def ", "route", "+ fixed typo"}

InitClassify ==
    /\ now = 0
    /\ recent_pr_updates = [k \in {} |-> 0]
    /\ cfg = [secret |-> "bahen", google_key |-> TRUE]
    /\ agents = [commit_agent |-> TRUE, readme_agent |-> TRUE]
    /\ runs = EmptyBag
    /\ started = 0
    /\ http = NoExchange
    /\ github = [p \in PRs |-> NoFile]
    /\ hooks = {}
    /\ guard = [phase |-> "idle"]
    /\ readme = << >>
    /\ applied = << >>
    /\ call = [phase |-> "idle"]
    /\ server = "serving"

\* analyze_pr_webhook after the reads: the impact, the requirements, the
\* priority
Classify ==
    /\ call.phase = "idle"
    /\ \E files \in SmallSets(ClassifierFiles, MaxPRFiles),
          diffOk \in BOOLEAN, diff \in SUBSET DiffTokens :
          LET impact == assess_documentation_impact(files, diffOk, diff)
              req == determine_documentation_requirements(files, impact)
          IN  call' = [ phase |-> "returned", files |-> files,
                        diffOk |-> diffOk, diff |-> diff,
                        impact |-> impact, req |-> req,
                        priority |-> calculate_priority(req) ]
    /\ UNCHANGED <<now, recent_pr_updates, cfg, agents, runs, started, http,
                   github, hooks, guard, readme, applied, server>>

NextClassify == Classify

SpecClassify == InitClassify /\ [][NextClassify]_vars

\* -------------------------------------------------- extractor specification
\* commit_watcher_agent.py extract_pr_changes as a function of the files of a
\* pull request and of the patch of each.

\* _is_api_file: api_indicators[:5], looked for in filename.lower()
ApiNameIndicators ==
    { <<"a", "p", "i">>,
      <<"e", "n", "d", "p", "o", "i", "n", "t">>,
      <<"r", "o", "u", "t", "e">>,
      <<"c", "o", "n", "t", "r", "o", "l", "l", "e", "r">>,
      <<"s", "e", "r", "v", "i", "c", "e">> }

\* _is_api_file: api_indicators[5:], looked for in patch.lower()
ApiPatchIndicators ==
    { "def ", "function ", "class ", "interface ", "@app.route", "router.",
      "express.", "fastapi" }

\* the lower-cased patch of a file, as the set of its tokens
PatchTokens == {"def ", "+ text"}

is_api_file(filename, patch) ==
    \/ \E ind \in ApiNameIndicators : Contains(Lower(Chars(filename)), ind)
    \/ (patch \cap ApiPatchIndicators) # {}

\* extract_pr_changes: configuration suffixes
ExtractConfigExts ==
    { <<".", "j", "s", "o", "n">>,
      <<".", "y", "a", "m", "l">>,
      <<".", "y", "m", "l">>,
      <<".", "t", "o", "m", "l">>,
      <<".", "i", "n", "i">> }

\* extract_pr_changes: documentation suffixes
ExtractDocExts ==
    { <<".", "m", "d">>,
      <<".", "r", "s", "t">>,
      <<".", "t", "x", "t">> }

\* extract_pr_changes: the if/elif chain for one file
extract_category(filename, patch) ==
    IF is_api_file(filename, patch) THEN "api"
    ELSE IF HasSuffix(filename, ExtractConfigExts) THEN "config"
    ELSE IF HasSuffix(filename, ExtractDocExts) THEN "documentation"
    ELSE IF Contains(Lower(Chars(filename)), <<"t", "e", "s", "t">>) THEN "test"
    ELSE "other"

ChangeKeys ==
    {"api_changes", "config_changes", "documentation_changes", "test_changes",
     "other_changes"}

KeyOf(category) ==
    CASE category = "api" -> "api_changes"
      [] category = "config" -> "config_changes"
      [] category = "documentation" -> "documentation_changes"
      [] category = "test" -> "test_changes"
      [] OTHER -> "other_changes"

\* extract_pr_changes: the five lists, as sets of file names
extract_pr_changes(files, patch) ==
    [ k \in ChangeKeys |->
        {f \in files : KeyOf(extract_category(f, patch[f])) = k} ]

ExtractFiles ==
    { "src/api/users.py", "setup.cfg", "config.yml", "CHANGELOG.md",
      "guide.adoc", "test_app.py", "Makefile" }

InitExtract ==
    /\ now = 0
    /\ recent_pr_updates = [k \in {} |-> 0]
    /\ cfg = [secret |-> "bahen", google_key |-> TRUE]
    /\ agents = [commit_agent |-> TRUE, readme_agent |-> TRUE]
    /\ runs = EmptyBag
    /\ started = 0
    /\ http = NoExchange
    /\ github = [p \in PRs |-> NoFile]
    /\ hooks = {}
    /\ guard = [phase |-> "idle"]
    /\ readme = << >>
    /\ applied = << >>
    /\ call = [phase |-> "idle"]
    /\ server = "serving"

ExtractChanges ==
    /\ call.phase = "idle"
    /\ \E files \in SmallSets(ExtractFiles, MaxPRFiles) :
          \E patch \in [files -> SUBSET PatchTokens] :
             call' = [ phase |-> "returned", files |-> files, patch |-> patch,
                       changes |-> extract_pr_changes(files, patch) ]
    /\ UNCHANGED <<now, recent_pr_updates, cfg, agents, runs, started, http,
                   github, hooks, guard, readme, applied, server>>

NextExtract == ExtractChanges

SpecExtract == InitExtract /\ [][NextExtract]_vars

\* ------------------------------------------------- extraction specification
\* _extract_llm_output of github_bot_agent.py (comment mode) and of
\* readme_updater_agent.py (README mode) as functions of the LLM response.
\* A response is a string or a dict; a value of a dict is a string or a dict
\* of strings.
StrV(s) == [kind |-> "str", s |-> s]

DictV(d) == [kind |-> "dict", d |-> d]

\* what the function returns: None, a text, or str() of a dict
NoneR == [kind |-> "None"]

TextR(s) == [kind |-> "text", s |-> s]

ReprR(v) == [kind |-> "repr", of |-> v]

\* Python's truth value of a string or a dict
Truthy(v) == IF v.kind = "str" THEN v.s # "" ELSE DOMAIN v.d # {}

\* github_bot_agent.py possible_keys
PossibleKeys ==
    <<"output", "result", "text", "response", "generated_text", "content",
      "message", "data">>

\* readme_updater_agent.py possible_keys
ReadmePossibleKeys ==
    <<"output", "result", "text", "response", "generated_text", "content">>

NestedKeys == <<"text", "content", "message", "output">>

\* the first index of `order` whose key is in the dict with a truthy value,
\* or 0: the `for key in ...: if key in d and d[key]` loops
FirstNested(d) ==
    LET I == {i \in 1..Len(NestedKeys) :
                 NestedKeys[i] \in DOMAIN d /\ d[NestedKeys[i]] # ""}
    IN  IF I = {} THEN 0 ELSE CHOOSE i \in I : \A j \in I : i <= j

FirstKey(order, d) ==
    LET I == {i \in 1..Len(order) :
                 order[i] \in DOMAIN d /\ Truthy(d[order[i]])}
    IN  IF I = {} THEN 0 ELSE CHOOSE i \in I : \A j \in I : i <= j

\* the body both functions share, with the key list of each
extract_with(order, llm_result) ==
    IF ~Truthy(llm_result) THEN NoneR
    ELSE IF llm_result.kind = "str" THEN TextR(llm_result.s)
    ELSE LET i == FirstKey(order, llm_result.d)
         IN  IF i = 0 THEN ReprR(llm_result)
             ELSE LET value == llm_result.d[order[i]]
                  IN  IF value.kind = "dict"
                      THEN LET n == FirstNested(value.d)
                           IN  IF n = 0 THEN ReprR(value)
                               ELSE TextR(value.d[NestedKeys[n]])
                      ELSE TextR(value.s)

\* github_bot_agent.py _extract_llm_output
bot_extract_llm_output(llm_result) == extract_with(PossibleKeys, llm_result)

\* readme_updater_agent.py _extract_llm_output
readme_extract_llm_output(llm_result) ==
    extract_with(ReadmePossibleKeys, llm_result)

\* the values of the responses considered
NestedDicts ==
    { [k \in {} |-> ""],
      ("text" :> "n"),
      ("text" :> ""),
      ("x" :> "n"),
      ("text" :> "") @@ ("output" :> "o"),
      ("output" :> "o") @@ ("text" :> "t") }

ResponseValues == {StrV(""), StrV("a")} \cup {DictV(d) : d \in NestedDicts}

ResponseKeys == {"output", "result", "message", "data", "id"}

LLMResponses ==
    {StrV(""), StrV("hello")} \cup
    { DictV(d) : d \in UNION { [K -> ResponseValues] :
                                  K \in SmallSets(ResponseKeys, MaxKeys) } }

InitExtraction ==
    /\ now = 0
    /\ recent_pr_updates = [k \in {} |-> 0]
    /\ cfg = [secret |-> "bahen", google_key |-> TRUE]
    /\ agents = [commit_agent |-> TRUE, readme_agent |-> TRUE]
    /\ runs = EmptyBag
    /\ started = 0
    /\ http = NoExchange
    /\ github = [p \in PRs |-> NoFile]
    /\ hooks = {}
    /\ guard = [phase |-> "idle"]
    /\ readme = << >>
    /\ applied = << >>
    /\ call = [phase |-> "idle"]
    /\ server = "serving"

ExtractCommentMode ==
    /\ call.phase = "idle"
    /\ \E llm_result \in LLMResponses :
          call' = [ phase |-> "returned", target |-> "comment",
                    llm_result |-> llm_result,
                    result |-> bot_extract_llm_output(llm_result) ]
    /\ UNCHANGED <<now, recent_pr_updates, cfg, agents, runs, started, http,
                   github, hooks, guard, readme, applied, server>>

ExtractReadmeMode ==
    /\ call.phase = "idle"
    /\ \E llm_result \in LLMResponses :
          call' = [ phase |-> "returned", target |-> "readme",
                    llm_result |-> llm_result,
                    result |-> readme_extract_llm_output(llm_result) ]
    /\ UNCHANGED <<now, recent_pr_updates, cfg, agents, runs, started, http,
                   github, hooks, guard, readme, applied, server>>

NextExtraction == ExtractCommentMode \/ ExtractReadmeMode

SpecExtraction == InitExtraction /\ [][NextExtraction]_vars

\* ------------------------------------------------------------------ claims
\* the states of a thread between the timestamp and the end of the write-back
FullProcessing == {"analyze", "generate", "read", "write"}

\* C1: the synchronize event GitHub sends for a write-back commit (a commit
\* touching only README.md) is always ignored by the loop guard, so it never
\* leads to another write-back.
C1_WriteBackEventIgnored ==
    \A r \in Live : r.ev.commit = "wb" => r.decision # "pass"

\* C2: of two events for the same pull request that arrive together and are
\* handled by concurrent workers, at most one is in full processing while the
\* suppression window of their arrival is still open.
C2_AtMostOneProceeds ==
    \A r \in Live : \A q \in Live :
        ( /\ r.ev.pr = q.ev.pr
          /\ r.submitted = q.submitted
          /\ now - r.submitted < SuppressSeconds
          /\ r.pc \in FullProcessing
          /\ q.pc \in FullProcessing )
        => (r = q /\ CopiesIn(r, runs) = 1)

\* C3: of two identical pull_request events submitted less than 3 minutes
\* apart, the second is ignored by the loop guard: two running threads of
\* identical events submitted within the window have never both passed it.
C3_SecondOfBurstIgnored ==
    \A r \in Live : \A q \in Live :
        ( /\ r.ev = q.ev
          /\ r.pc \notin TerminalPcs /\ q.pc \notin TerminalPcs
          /\ r.submitted - q.submitted < SuppressSeconds
          /\ q.submitted - r.submitted < SuppressSeconds
          /\ r.decision = "pass" /\ q.decision = "pass" )
        => (r = q /\ CopiesIn(r, runs) = 1)

\* the documentation-path pattern as the specification words it: contains
\* readme.md, readme.rst, readme.txt, docs/ or documentation/, or ends in .md
SpecDocPath(f) ==
    LET s == Lower(Chars(f))
    IN  \/ \E p \in DocPatterns \ {<<".", "m", "d">>} : Contains(s, p)
        \/ EndsWith(s, <<".", "m", "d">>)

\* C4: for a synchronize event whose key was not processed in the last 3
\* minutes (and whose head commit was looked up and has files), the loop guard
\* ignores the event if and only if every changed file matches the
\* documentation-path pattern of the specification.
C4_IgnoredIffAllDocs ==
    ( /\ guard.phase = "output"
      /\ guard.action = "synchronize"
      /\ guard.pr # 0
      /\ ~RecentlyProcessed(guard.before, guard.pr, now)
      /\ guard.hasSha /\ guard.fetchOk /\ guard.files # {} )
    => ((guard.result # "pass") <=> (\A f \in guard.files : SpecDocPath(f)))

\* C5: with a secret configured, a delivery whose signature header is missing
\* or is not the HMAC of the body under the secret is answered 401 and starts
\* no background worker.
C5_BadSignatureRejected ==
    ( /\ http.status # 0
      /\ cfg.secret # ""
      /\ http.sig # HmacHeader(cfg.secret, "this_body") )
    => (http.status = 401 /\ ~http.started /\ runs = EmptyBag)

\* C6: when a GitHub read of the analysis (PR details, diff or files) has
\* failed, the run is aborted at the analysis: it never reaches generation or
\* write-back.
C6_FetchFailureAborts ==
    \A r \in Live :
        r.fetch_failed => (r.pc = "failed" /\ r.failed_at = "analyze")

\* C7: content generation never aborts the pipeline: no run fails in the
\* generation step, and a run that has passed it stands at the write-back with
\* non-empty content, which is the fallback template of its analysis unless
\* it is an answer of the configured LLM.
C7_GenerationNeverAborts ==
    \A r \in Live :
        /\ r.failed_at # "generate"
        /\ r.pc \in {"read", "write"} =>
              /\ r.content.ok
              /\ r.content.text # << >>
              /\ \/ /\ r.content.source = "llm"
                    /\ cfg.google_key
                    /\ r.content.text \in GeminiTexts
                 \/ /\ r.content.source = "fallback"
                    /\ r.content.text = generate_ai_comment_fallback(r.analysis)

\* C7 witness: with the LLM key configured, a run stands at the write-back
\* with fallback content (the LLM call raised or returned empty text).
C7_Witness ==
    \E r \in Live :
        /\ cfg.google_key
        /\ r.pc = "read"
        /\ r.content.source = "fallback"
        /\ r.content.text # << >>

\* the number of "## ... Recent Documentation Updates" headings of a README
SectionCount(lines) ==
    Cardinality({i \in 1..Len(lines) :
                    StartsWith(lines[i], "## ") /\ ContainsPhrase(lines[i])})

\* C8: after any successful write-back the README has exactly one "Recent
\* Documentation Updates" section, whatever it contained before.
C8_ExactlyOneSection ==
    applied # << >> => SectionCount(readme) = 1

Range(s) == {s[i] : i \in 1..Len(s)}

Occurrences(lines, l) == Cardinality({i \in 1..Len(lines) : lines[i] = l})

\* C9: after the write-back for PR A and then for PR B, the README holds
\* nothing of what was generated for A: not its PR heading, not a second
\* footer, and no line of A's insight text that B's text and the README
\* before A did not have.
C9_OldSectionReplaced ==
    Len(applied) = 2 =>
        LET A == applied[1]
            B == applied[2]
        IN  /\ PRHeading(A.pr) \notin Range(readme)
            /\ Occurrences(readme, Footer) = 1
            /\ \A l \in Range(A.text) :
                  (l # Blank /\ l \notin Range(B.text) /\ l \notin Range(A.before))
                  => l \notin Range(readme)

\* C10: a failure of the README read other than a 404 ends the write-back
\* with status error and without any write call.
C10_ReadFailureAborts ==
    \A r \in Live :
        r.read_outcome = "error" =>
            /\ r.write_calls = 0
            /\ r.pc = "done" => r.result = "error"

\* the write of thread r is built on a README that is no longer the current one
Stale(r) ==
    \/ r.current_readme.found # github[r.ev.pr].found
    \/ r.current_readme.found /\ r.current_readme.sha # github[r.ev.pr].sha

\* C11: of the runs that write the README of one branch after reading the
\* same SHA at most one commit is accepted: a commit is accepted only if it
\* was built on the current SHA of the branch, a run whose write is stale
\* ends with status error and leaves the branch as it is, and no run issues
\* more than one write call.
C11_StaleWriteRejected ==
    /\ [](\A r \in Live : /\ r.write_calls <= 1
                           /\ r.pc = "done" => r.write_calls = 1)
    /\ [][ /\ \A p \in PRs : github'[p] # github[p] =>
                 /\ github'[p].sha = github[p].sha + 1
                 /\ \E r \in Live : /\ r.pc = "write" /\ r.ev.pr = p
                                    /\ ~Stale(r)
                                    /\ CopiesIn(r, runs') < CopiesIn(r, runs)
           /\ \A r \in Live :
                 ( /\ r.pc = "write" /\ Stale(r)
                   /\ CopiesIn(r, runs') < CopiesIn(r, runs) )
                 => /\ github' = github
                    /\ \E q \in BagToSet(runs') :
                          /\ q.ev = r.ev /\ q.pc = "done"
                          /\ q.result = "error" /\ q.write_calls = 1 ]_vars

\* C11 witness: a run has read the README at a SHA, another run's commit has
\* moved the branch on, and the run has ended with status error after its
\* one write call.
C11_Witness ==
    \E r \in Live :
        /\ r.pc = "done" /\ r.result = "error" /\ r.write_calls = 1
        /\ r.read_outcome = "ok"
        /\ r.current_readme.found
        /\ r.current_readme.sha < github[r.ev.pr].sha

\* the actions the specification names for analysis
SpecActions == {"opened", "synchronize", "edited", "reopened"}

\* C12: a pull_request event is analysed only if its action is opened,
\* synchronize, edited or reopened, and each of these is analysed when the
\* loop guard lets it pass: at /webhook a thread that has passed the guard
\* goes on exactly for these actions, and at /webhooks/github the workflow is
\* started exactly for these actions (the repository being monitored and the
\* workflow server answering).
C12_FourActionsAnalysed ==
    /\ \A r \in Live :
          (r.pc # "guard" /\ r.decision = "pass")
          => (r.pc = "skipped" <=> r.ev.action \notin SpecActions)
    /\ ( /\ http.status = 200 /\ cfg.program = "api"
         /\ Len(http.seen) = 3 /\ http.seen[3] )
       => (http.started <=> http.seen[2] \in SpecActions)

\* C13: every pull_request delivery that passes the signature verification
\* and parses as JSON is answered 200, and the answer waits for no pipeline
\* step: when the handler answers with a worker started, that worker stands at
\* its first line and nothing of the pipeline state has changed.
C13_AnsweredBeforePipeline ==
    /\ []( ( /\ http.status # 0
             /\ http.event_type = "pull_request"
             /\ verify_signature(cfg.secret, "this_body", http.sig)
             /\ http.json )
           => http.status = 200 )
    /\ [][ (http' # http /\ http'.started)
           => /\ \E q \in BagToSet(runs') :
                    /\ q.pc = "guard"
                    /\ runs' = runs (+) SetToBag({q})
              /\ UNCHANGED <<recent_pr_updates, agents, github, hooks>> ]_vars

\* C14: when no webhook secret is configured, no delivery is refused with 401,
\* whatever its X-Hub-Signature-256 header (absent, malformed or wrong), at
\* any of the entrypoints.
C14_NoSecretAcceptsAll ==
    (cfg.secret = "" /\ http.status # 0) => http.status # 401

\* C15: without a GitHub access token the system stops at start-up: it never
\* serves, never accepts a webhook delivery and never starts a pipeline run.
C15_MissingTokenFailsFast ==
    (~cfg.github_token)
        => (server # "serving" /\ http.status = 0 /\ started = 0)

\* C16: every value the write-back engine returns, in README mode and in
\* comment mode, is a result record with a status field that is either
\* "success" or "error".
C16_ResultHasStatus ==
    call.phase = "returned"
        => /\ "status" \in DOMAIN call.result
           /\ call.result.status \in {"success", "error"}

\* C17: for every requirement the classifier produces, the priority is "none"
\* if and only if requires_update is false, and a "critical" priority implies
\* impact_level "high" and a confidence above 0.8.
C17_PriorityConsistent ==
    call.phase = "returned"
        => /\ (call.priority = "none") <=> ~call.req.requires_update
           /\ call.priority = "critical"
                 => (call.req.impact_level = "high" /\ call.req.confidence_score > 8)

C17_Witness ==
    /\ call.phase = "returned"
    /\ call.priority = "critical"
    /\ call.req.requires_update

\* the coarse scan found one of its tokens in the diff
ScanFoundToken == call.diffOk /\ (call.diff \cap ApiKeywords) # {}

\* C18: impact_level is "high" if the diff contains one of the scan's tokens,
\* else "medium" if a configuration file changed, else "low": a diff with a
\* token gives "high" whichever files the pull request changes.
C18_ImpactLevelOrder ==
    call.phase = "returned"
        => call.impact.impact_level =
              IF ScanFoundToken THEN "high"
              ELSE IF \E f \in call.files : HasSuffix(f, ImpactConfigExts)
                   THEN "medium"
              ELSE "low"

\* C19: with requires_update true the priority is "critical" for high impact
\* and confidence above 0.8, else "high" for high impact or confidence above
\* 0.7, else "medium" for medium impact or confidence above 0.5, else "low";
\* a pull request that changes only src/api/users.py with `def ` in its diff
\* has confidence 0.8, requires_update true, impact high and priority high or
\* critical.
C19_PriorityTable ==
    call.phase = "returned"
        => /\ call.req.requires_update
                => call.priority =
                      IF call.req.impact_level = "high" /\ call.req.confidence_score > 8
                      THEN "critical"
                      ELSE IF call.req.impact_level = "high" \/ call.req.confidence_score > 7
                      THEN "high"
                      ELSE IF call.req.impact_level = "medium" \/ call.req.confidence_score > 5
                      THEN "medium"
                      ELSE "low"
           /\ (call.files = {"src/api/users.py"} /\ call.diffOk /\ "def " \in call.diff)
                => /\ call.req.confidence_score = 8
                   /\ call.req.requires_update
                   /\ call.req.impact_level = "high"
                   /\ call.priority \in {"high", "critical"}

C19_Witness ==
    /\ call.phase = "returned"
    /\ call.files = {"src/api/users.py"}
    /\ call.diffOk
    /\ call.diff = {"def "}
    /\ call.priority = "high"

\* the confidence as the specification computes it, in tenths: 0.5, +0.3 for
\* a code file with one of the extensions .py, .js, .ts, .java, +0.2 for a
\* configuration file, +0.1 for a documentation file, capped at 1.0
SpecConfidence(files) ==
    LET raw == 5 + (IF \E f \in code_files(files) : HasSuffix(f, ApiCodeExts)
                    THEN 3 ELSE 0)
                 + (IF config_files(files) # {} THEN 2 ELSE 0)
                 + (IF documentation_files(files) # {} THEN 1 ELSE 0)
    IN  IF raw > 10 THEN 10 ELSE raw

\* C20: requires_update is true exactly when the coarse scan found a token in
\* the diff or the confidence (0.5, +0.3 code file, +0.2 config file, +0.1
\* documentation file, capped at 1.0) is above 0.6; a pull request that
\* changes one documentation file only, with no token, has confidence 0.6,
\* requires_update false and priority "none".
C20_RequiresUpdate ==
    call.phase = "returned"
        => /\ call.req.confidence_score = SpecConfidence(call.files)
           /\ call.req.requires_update
                 <=> (ScanFoundToken \/ call.req.confidence_score > 6)
           /\ ( /\ Cardinality(call.files) = 1
                /\ documentation_files(call.files) = call.files
                /\ ~ScanFoundToken )
                 => /\ call.req.confidence_score = 6
                    /\ ~call.req.requires_update
                    /\ call.priority = "none"

C20_Witness ==
    /\ call.phase = "returned"
    /\ call.files = {"CHANGELOG.md"}
    /\ ~ScanFoundToken
    /\ call.priority = "none"

\* the category of a file by the rule of the specification: api by a name or
\* patch indicator, then config by .json/.yaml/.yml/.toml/.ini/.cfg, then
\* documentation by .md/.rst/.txt/.adoc, then test by `test` in the name
SpecCategory(filename, patch) ==
    IF is_api_file(filename, patch) THEN "api"
    ELSE IF HasSuffix(filename, ConfigExts) THEN "config"
    ELSE IF HasSuffix(filename, DocExts) THEN "documentation"
    ELSE IF Contains(Lower(Chars(filename)), <<"t", "e", "s", "t">>) THEN "test"
    ELSE "other"

\* C21: every changed file is in exactly one of the five categories, and it is
\* the first category that matches in the order api, config, documentation,
\* test, other.
C21_FirstMatchCategory ==
    call.phase = "returned"
        => \A f \in call.files :
              /\ Cardinality({k \in ChangeKeys : f \in call.changes[k]}) = 1
              /\ f \in call.changes[KeyOf(SpecCategory(f, call.patch[f]))]

\* the extraction as the specification states it: the string itself, else
\* the first of the eight keys that holds a value (one level down under text,
\* content, message, output when that value is a mapping), else the
\* stringified response
SpecExtraction8(llm_result) ==
    IF llm_result.kind = "str" THEN TextR(llm_result.s)
    ELSE LET i == FirstKey(PossibleKeys, llm_result.d)
         IN  IF i = 0 THEN ReprR(llm_result)
             ELSE LET value == llm_result.d[PossibleKeys[i]]
                  IN  IF value.kind = "dict"
                      THEN LET n == FirstNested(value.d)
                           IN  IF n = 0 THEN ReprR(value)
                               ELSE TextR(value.d[NestedKeys[n]])
                      ELSE TextR(value.s)

\* C22: for every response that is a string or a mapping, the extraction in
\* comment mode and in README mode returns the string itself, else the value
\* of the first of the keys output, result, text, response, generated_text,
\* content, message, data (one level down for a mapping), else the
\* stringified response.
C22_SameExtraction ==
    call.phase = "returned" => call.result = SpecExtraction8(call.llm_result)

\* the lines of a text
LinesOf(text) == {text[i] : i \in 1..Len(text)}

\* C23: without an LLM key the generator returns the fallback template for
\* every analysis result, and that text names the priority of the analysis
\* (as str.title() prints it) and has one bullet for every suggested action.
C23_FallbackTemplate ==
    \A r \in Live :
        (~cfg.google_key /\ r.pc \in {"read", "write"})
            => /\ r.content.source = "fallback"
               /\ r.content.text = generate_ai_comment_fallback(r.analysis)
               /\ \E line \in LinesOf(r.content.text) :
                      line # << >> /\ line[Len(line)] = Title(r.analysis.priority)
               /\ \A i \in 1..Len(r.analysis.suggested_actions) :
                      <<"* ", r.analysis.suggested_actions[i]>>
                          \in LinesOf(r.content.text)

\* C24: every background run eventually terminates (done, ignored, skipped or
\* failed), also when a GitHub or LLM call never gets an answer.
C24_RunsTerminate == <>(\A r \in Live : r.pc \in TerminalPcs)

\* the run has begun Step 1: it was not ignored, its action is processed and
\* init_agents has returned True
Processing(r) ==
    \/ r.pc \in {"analyze", "generate", "read", "write", "done"}
    \/ r.pc = "failed" /\ r.failed_at # "init"

GuardKeyRecent ==
    /\ guard.pr \in DOMAIN guard.before
    /\ now - guard.before[guard.pr] < SuppressSeconds

\* C26: when the commit-files lookup of a synchronize event fails or returns
\* no file, or the payload has no head SHA, should_ignore_webhook does not
\* ignore the event as documentation-only: it returns False unless the key
\* was processed less than 3 minutes ago.
C26_DocOnlyFailsOpen ==
    ( /\ guard.phase = "output"
      /\ guard.action = "synchronize"
      /\ (~guard.fetchOk \/ guard.files = {} \/ ~guard.hasSha) )
        => /\ guard.result # "doc_only"
           /\ guard.result = "pass" <=> ~GuardKeyRecent

C26_Witness ==
    /\ guard.phase = "output"
    /\ guard.action = "synchronize"
    /\ guard.pr # 0
    /\ guard.hasSha
    /\ ~guard.fetchOk
    /\ guard.files = {"README.md"}
    /\ ~GuardKeyRecent
    /\ guard.result = "pass"

\* C27: init_agents returns True only when commit_agent and readme_agent are
\* both set, so no thread stands at Step 1 or later with an agent unset.
C27_BothAgentsSet ==
    \A r \in Live :
        r.pc \in {"analyze", "generate", "read", "write"}
            => (agents.commit_agent /\ agents.readme_agent)

\* a is a subsequence of b: the lines of a occur in b in the same order
RECURSIVE IsSubseq(_, _)
IsSubseq(a, b) ==
    IF a = << >> THEN TRUE
    ELSE IF b = << >> THEN FALSE
    ELSE IF Head(a) = Head(b) THEN IsSubseq(Tail(a), Tail(b))
    ELSE IsSubseq(a, Tail(b))

\* the lines of a README outside its managed section: the section runs from
\* the first `## ` heading that names it to the footer line, or to the line
\* before the next `## ` heading, or to the end
OutsideManaged(lines) ==
    LET n == Len(lines)
        heads == {i \in 1..n : StartsWith(lines[i], "## ") /\ ContainsPhrase(lines[i])}
    IN  IF heads = {} THEN lines
        ELSE LET i == Min(heads)
                 stops == {j \in (i + 1)..n :
                              StartsWith(lines[j], "## ") \/ Strip(lines[j]) = Footer}
                 end == IF stops = {} THEN n + 1
                        ELSE IF StartsWith(lines[Min(stops)], "## ")
                             THEN Min(stops) ELSE Min(stops) + 1
             IN  SubSeq(lines, 1, i - 1) \o SubSeq(lines, end, n)

\* C28: the README merge changes the managed section only: every line of the
\* prior content outside the "Recent Documentation Updates" section is in the
\* merged content, in the same order.
C28_MergeKeepsOtherLines ==
    applied # << >>
        => IsSubseq(OutsideManaged(applied[Len(applied)].before), readme)

\* C29: no analysis has priority "low": when requires_update is true the
\* coarse scan gave impact high or medium, or the confidence is above 0.6, so
\* the priority is critical, high or medium; it is "none" exactly when
\* requires_update is false.
C29_NeverLowPriority ==
    call.phase = "returned" =>
        /\ call.priority # "low"
        /\ call.req.requires_update =>
               /\ \/ call.req.impact_level \in {"high", "medium"}
                  \/ call.req.confidence_score > 6
               /\ call.priority \in {"critical", "high", "medium"}
        /\ ~call.req.requires_update => call.priority = "none"

\* an update is required on the confidence alone, the coarse scan said "low"
C29_Witness ==
    /\ call.phase = "returned"
    /\ call.req.requires_update
    /\ call.req.impact_level = "low"
    /\ call.priority \in {"high", "medium"}

\* C30: every pull_request event that passed the loop guard and the action
\* filter and whose analysis has no error reaches the write-back step exactly
\* once: a run leaves Step 2 only into Step 3, Step 3 is entered only from
\* Step 2, whether requires_documentation is true or false, and a run is
\* skipped only by the action filter.
C30_WriteBackAlwaysReached ==
    /\ [][ /\ \A r \in Live :
                 (r.pc = "generate" /\ CopiesIn(r, runs') < CopiesIn(r, runs))
                 => \E q \in BagToSet(runs') :
                       /\ q.ev = r.ev /\ q.analysis = r.analysis
                       /\ q.pc = "read" /\ q.write_calls = 0
                       /\ CopiesIn(q, runs') > CopiesIn(q, runs)
           /\ \A q \in BagToSet(runs') :
                 (q.pc = "read" /\ CopiesIn(q, runs') > CopiesIn(q, runs))
                 => \E r \in Live : /\ r.pc = "generate" /\ r.ev = q.ev
                                    /\ CopiesIn(r, runs') < CopiesIn(r, runs) ]_vars
    /\ [](\A r \in Live :
             /\ r.pc = "skipped" =>
                   r.decision = "pass" /\ r.ev.action \notin ProcessedActions
             /\ r.write_calls <= 1)

\* C30 witness: a run whose analysis requires no documentation, with priority
\* "none", is in the write-back step.
C30_Witness ==
    \E r \in Live :
        /\ r.pc \in {"read", "write"}
        /\ r.decision = "pass"
        /\ r.ev.action \in ProcessedActions
        /\ ~r.analysis.error
        /\ ~r.analysis.requires_documentation
        /\ r.analysis.priority = "none"

====
